---- MODULE Spec2Model ----
(***************************************************************************)
(* Model of src/main.py: the EPG generator.  One run fetches the channel   *)
(* metadata, generates the three day URLs, fetches and merges the day      *)
(* bundles into the XML tree `tv`, and writes epg.xml.                     *)
(*                                                                         *)
(* Three specifications share the variables:                               *)
(*   Spec      the whole script (lines 63-153), get_api_urls reading the   *)
(*             clock within one day;                                       *)
(*   SpecUrls  get_api_urls alone, over many start dates and with          *)
(*             midnights passing between its reads of the clock;           *)
(*   SpecFmt   validate_program_times / format_timestamp on one programme. *)
(***************************************************************************)
EXTENDS Integers, Sequences, FiniteSets, TLC

VARIABLES
    pc,                 \* position of the script
    channel_info,       \* dict returned by get_channel_info (line 65)
    now,                \* the wall clock, as a day number since 1970-01-01
    ticks,              \* midnights passed since the run began
    urls,               \* list built by get_api_urls (line 32)
    api,                \* index of api_url in the loop of line 76
    data,               \* response.json() of the current day (line 80)
    ci,                 \* index of `channel` in `data` (line 82)
    programs,           \* channel.get("epg", []) (line 106)
    pi,                 \* index of `program` in `programs` (line 110)
    tv,                 \* children of the root element, in document order
    processed_channels, \* set of line 73
    requested,          \* day URLs a GET was issued for, in order
    fetched,            \* per attempted day: how the GET ended and its payload
    meta,               \* how the metadata GET ended
    file,               \* epg.xml on disk
    opens,              \* times epg.xml was opened for writing
    printed,            \* messages printed, in order
    raised,             \* the exception that reached line 152, if any
    fmt                 \* SpecFmt: one programme and what the functions gave

vars == <<pc, channel_info, now, ticks, urls, api, data, ci, programs, pi, tv,
          processed_channels, requested, fetched, meta, file, opens, printed,
          raised, fmt>>

-----------------------------------------------------------------------------
(* Bounds of the model.                                                    *)

\* midnights that may pass while get_api_urls runs
MaxTicks == 1
\* channel entries and programme records over all day bundles of one run
MaxRecords == 4

-----------------------------------------------------------------------------
(* JSON values of the "s" and "e" fields.                                  *)

I(n) == [t |-> "int", v |-> n, s |-> <<>>]
S(chars) == [t |-> "str", v |-> 0, s |-> chars]
None == [t |-> "none", v |-> 0, s |-> <<>>]
\* the key is not in the object
Absent == [t |-> "absent", v |-> 0, s |-> <<>>]

\* dict.get(key, default)
Get(x, default) == IF x.t = "absent" THEN default ELSE x

Digits == <<"0", "1", "2", "3", "4", "5", "6", "7", "8", "9">>

IsDigit(c) == \E k \in 1..10 : Digits[k] = c

DigitVal(c) == (CHOOSE k \in 1..10 : Digits[k] = c) - 1

RECURSIVE DecVal(_)
DecVal(cs) ==
    IF cs = <<>> THEN 0
    ELSE 10 * DecVal(SubSeq(cs, 1, Len(cs) - 1)) + DigitVal(cs[Len(cs)])

\* int(x): a Python int is itself; a string is parsed as an optionally
\* signed decimal literal (ValueError otherwise); None is a TypeError.
PyInt(x) ==
    CASE x.t = "int" -> [exc |-> "none", val |-> x.v]
      [] x.t = "none" -> [exc |-> "TypeError", val |-> 0]
      [] OTHER ->
            LET signed == x.s # <<>> /\ x.s[1] \in {"-", "+"}
                body == IF signed THEN Tail(x.s) ELSE x.s
            IN  IF body # <<>> /\ \A k \in 1..Len(body) : IsDigit(body[k])
                THEN [exc |-> "none",
                      val |-> IF signed /\ x.s[1] = "-" THEN 0 - DecVal(body)
                              ELSE DecVal(body)]
                ELSE [exc |-> "ValueError", val |-> 0]

-----------------------------------------------------------------------------
(* Calendar arithmetic of datetime.                                        *)

\* the proleptic Gregorian date of a day number (days since 1970-01-01)
CivilFromDays(z) ==
    LET zz == z + 719468
        era == zz \div 146097
        doe == zz - era * 146097
        yoe == (doe - doe \div 1460 + doe \div 36524 - doe \div 146096) \div 365
        doy == doe - (365 * yoe + yoe \div 4 - yoe \div 100)
        mp == (5 * doy + 2) \div 153
        d == doy - (153 * mp + 2) \div 5 + 1
        m == IF mp < 10 THEN mp + 3 ELSE mp - 9
        y == yoe + era * 400 + (IF m <= 2 THEN 1 ELSE 0)
    IN  [year |-> y, month |-> m, day |-> d]

\* a number as a zero-padded decimal string of width 2 or 4
Pad2(n) == Digits[((n \div 10) % 10) + 1] \o Digits[(n % 10) + 1]
Pad4(n) == Pad2((n \div 100) % 100) \o Pad2(n % 100)

\* the wall time of `secs` seconds since 1970-01-01T00:00:00
WallTime(secs) ==
    LET c == CivilFromDays(secs \div 86400)
        r == secs % 86400
    IN  [year |-> c.year, month |-> c.month, day |-> c.day,
         hour |-> r \div 3600, minute |-> (r % 3600) \div 60, second |-> r % 60]

\* strftime('%Y%m%d%H%M%S')
StrftimeCompact(w) ==
    Pad4(w.year) \o Pad2(w.month) \o Pad2(w.day)
        \o Pad2(w.hour) \o Pad2(w.minute) \o Pad2(w.second)

\* strftime("%d-%m-%Y")
StrftimeDMY(c) == Pad2(c.day) \o "-" \o Pad2(c.month) \o "-" \o Pad4(c.year)

\* Asia/Dhaka had daylight saving time once: from 2009-06-19 17:00:00 UTC
\* until 2009-12-31 17:00:00 UTC its clocks were at UTC+7.
DhakaDstBegin == 1245430800
DhakaDstEnd == 1262278800

\* utcoffset of pytz.timezone('Asia/Dhaka') at the instant t (t >= 1951-09-30)
DhakaUtcOffset(t) ==
    IF DhakaDstBegin <= t /\ t < DhakaDstEnd THEN 7 * 3600 ELSE 6 * 3600

-----------------------------------------------------------------------------
(* The functions of main.py.                                               *)

\* format_timestamp (lines 8-16)
format_timestamp(timestamp) ==
    LET n == PyInt(timestamp)
    IN  CASE n.exc = "none" ->
                [exc |-> "none",
                 val |-> StrftimeCompact(WallTime(n.val + DhakaUtcOffset(n.val)))
                            \o " +0600"]
          [] n.exc = "ValueError" -> [exc |-> "none", val |-> ""]
          [] OTHER -> [exc |-> n.exc, val |-> ""]

\* validate_program_times (lines 19-26)
validate_program_times(start, end) ==
    LET start_time == PyInt(start)
        end_time == PyInt(end)
    IN  CASE start_time.exc = "ValueError" -> [exc |-> "none", val |-> FALSE]
          [] start_time.exc = "TypeError" -> [exc |-> "TypeError", val |-> FALSE]
          [] end_time.exc = "ValueError" -> [exc |-> "none", val |-> FALSE]
          [] end_time.exc = "TypeError" -> [exc |-> "TypeError", val |-> FALSE]
          [] OTHER -> [exc |-> "none",
                       val |-> start_time.val > 0 /\ end_time.val > start_time.val]

-----------------------------------------------------------------------------
(* Payloads the two endpoints may answer with.                             *)

\* marks a key that the JSON object does not have
NoKey == "<no key>"
\* marks a child element that the channel node does not have
NoElem == "<no element>"

\* programme records {"s": ..., "e": ...}
Prog(s, e) == [s |-> s, e |-> e]

Progs ==
    { Prog(I(1000), I(2000)),                       \* well formed
      Prog(I(3000), S(<<"4", "0", "0", "0">>)),      \* integer-like string
      Prog(I(2000), I(1000)),                       \* ends before it starts
      Prog(I(0), I(100)),                           \* start is not positive
      Prog(S(<<"a", "b", "c">>), I(2000)),           \* start is no number
      Prog(I(1000), S(<<"a", "b", "c">>)),           \* end is no number
      Prog(I(1500), None) }                         \* end is null

\* lists of exactly k programme records
ProgLists(k) == [1..k -> Progs]

\* the "i" and "n" fields of a channel entry: a channel that the metadata
\* may know, and an entry that has neither key
EntryHeads ==
    { [i |-> "c1", n |-> "Name c1"], [i |-> NoKey, n |-> NoKey] }

\* channel entries {"i": ..., "n": ..., "epg": [...]} with k programmes
EntriesWith(k) ==
    { [i |-> h.i, n |-> h.n, epg |-> l] : h \in EntryHeads, l \in ProgLists(k) }

\* day bundles of at most n records, channel entries and programme records
\* counted together
RECURSIVE Bundles(_)
Bundles(n) ==
    {<<>>} \cup
    (IF n = 0 THEN {}
     ELSE UNION { { <<ent>> \o rest : ent \in EntriesWith(k),
                                      rest \in Bundles(n - 1 - k) } :
                  k \in 0..(n - 1) })

RECURSIVE CountRecords(_)
CountRecords(d) ==
    IF d = <<>> THEN 0 ELSE 1 + Len(d[1].epg) + CountRecords(Tail(d))

\* records of the bundles fetched so far
RECURSIVE UsedRecords(_)
UsedRecords(f) ==
    IF f = <<>> THEN 0 ELSE CountRecords(f[1].data) + UsedRecords(Tail(f))

\* channel records of the metadata answer; `full` is FALSE when one of
\* "name", "categoryName", "logo" is missing from the record
MetaChannel(c, full) == [id |-> c, full |-> full]

\* answers of the metadata endpoint: a request error, a non-2xx status, a
\* body that is not JSON, or a JSON object with its "channels" list
MetaResponses ==
    { [status |-> st, channels |-> <<>>] : st \in {"error", "http500", "badjson"} }
    \cup
    { [status |-> "ok", channels |-> cs] :
        cs \in { <<MetaChannel("c1", TRUE)>>,
                 <<MetaChannel("c1", TRUE), MetaChannel("c2", FALSE)>> } }

MetaInfo(c) ==
    [name |-> "Meta " \o c, category |-> "Cat " \o c, logo |-> "Logo " \o c]

\* get_channel_info (lines 42-60): any exception gives the empty dict
get_channel_info(resp) ==
    IF resp.status # "ok"
       \/ \E k \in 1..Len(resp.channels) : ~resp.channels[k].full
    THEN [failed |-> TRUE, dict |-> [c \in {} |-> MetaInfo(c)]]
    ELSE [failed |-> FALSE,
          dict |-> [c \in { resp.channels[k].id : k \in 1..Len(resp.channels) }
                        |-> MetaInfo(c)]]

URL(date) == "epg/652fcf82a2649538da6fc6e3_" \o date \o "_minified_bundle.json"

-----------------------------------------------------------------------------
(* list.sort(key=...): a stable sort; the keys are computed first, in list *)
(* order, and the first key that raises ends the sort.                     *)

SortKey(x) == PyInt(Get(x.s, I(0)))

\* faulty variant of InsertByKey: the element is appended, the list not sorted
InsertByKeyAppend(sorted, x) == Append(sorted, x)

RECURSIVE InsertByKey(_, _)
InsertByKey(sorted, x) ==
    IF sorted = <<>> THEN <<x>>
    ELSE IF SortKey(sorted[Len(sorted)]).val <= SortKey(x).val
         THEN Append(sorted, x)
         ELSE Append(InsertByKey(SubSeq(sorted, 1, Len(sorted) - 1), x),
                     sorted[Len(sorted)])

RECURSIVE SortedByKey(_)
SortedByKey(l) ==
    IF l = <<>> THEN <<>>
    ELSE InsertByKey(SortedByKey(SubSeq(l, 1, Len(l) - 1)), l[Len(l)])

\* the exception of the first key that raises, "none" if no key does
SortRaises(l) ==
    IF \E k \in 1..Len(l) : SortKey(l[k]).exc # "none"
    THEN SortKey(l[CHOOSE k \in 1..Len(l) :
                     /\ SortKey(l[k]).exc # "none"
                     /\ \A j \in 1..(k - 1) : SortKey(l[j]).exc = "none"]).exc
    ELSE "none"

-----------------------------------------------------------------------------
(* Nodes of the document.                                                  *)

\* <channel id=...> with its display-name, category and icon children
ChannelNode(id, name, category, icon, src) ==
    [tag |-> "channel", channel |-> id, name |-> name, category |-> category,
     icon |-> icon, start |-> "", stop |-> "", rs |-> Absent, re |-> Absent,
     src |-> src]

\* <programme start=... stop=... channel=...>; rs, re and src remember the
\* record the node was made from and the entry that held it
ProgrammeNode(id, start, stop, rs, re, src) ==
    [tag |-> "programme", channel |-> id, name |-> NoElem, category |-> NoElem,
     icon |-> NoElem, start |-> start, stop |-> stop, rs |-> rs, re |-> re,
     src |-> src]

NoRaise == [exc |-> "none", at |-> "none"]
NoFmt == [s |-> Absent, e |-> Absent, valid |-> "none", start_time |-> "",
          end_time |-> ""]
OldFile == [state |-> "old", content |-> <<>>]

\* ways a GET ends in a RequestException: no answer, or a non-2xx status
\* that raise_for_status turns into an HTTPError
RequestFailures == {"error", "http500"}

\* the number of day URLs (line 34)
NumDays == 3

\* faulty variant of NewChannelNodes: an id the metadata does not know gets
\* no channel node
NewChannelNodesMetaOnly(channel_id, channel_name, info, src) ==
    IF channel_id \in DOMAIN info
    THEN <<ChannelNode(channel_id, info[channel_id].name,
                       info[channel_id].category, info[channel_id].logo, src)>>
    ELSE <<>>

\* lines 88-101: the channel node of an id met for the first time, from the
\* metadata when it knows the id and from the entry's own name otherwise
NewChannelNodes(channel_id, channel_name, info, src) ==
    IF channel_id \in DOMAIN info
    THEN <<ChannelNode(channel_id, info[channel_id].name,
                       info[channel_id].category, info[channel_id].logo, src)>>
    ELSE <<ChannelNode(channel_id, channel_name, NoElem, NoElem, src)>>

\* faulty variant of MarkProcessed: the id is not remembered
MarkProcessedForgets(processed, channel_id) == processed

\* line 103
MarkProcessed(processed, channel_id) == processed \cup {channel_id}

\* faulty variant of AllDaysDone: the file is written as soon as one day is in
AfterFirstDay == api >= 1

\* the loop of line 76 has gone through every URL
AllDaysDone == api = Len(urls)

\* where the loops go on after the current entry
AfterEntry == IF ci < Len(data) THEN "channel" ELSE "fetch"

-----------------------------------------------------------------------------
(* The script, lines 63-153.                                               *)

\* the date the script of the specification Spec starts on (2024-02-28)
MainStartDay == 19781

InitRun ==
    /\ channel_info = [c \in {} |-> MetaInfo(c)]
    /\ ticks = 0
    /\ urls = <<>>
    /\ api = 0
    /\ data = <<>>
    /\ ci = 0
    /\ programs = <<>>
    /\ pi = 0
    /\ tv = <<>>
    /\ processed_channels = {}
    /\ requested = <<>>
    /\ fetched = <<>>
    /\ meta = "pending"
    /\ file = OldFile
    /\ opens = 0
    /\ printed = <<>>
    /\ raised = NoRaise

Init ==
    /\ pc = "meta"
    /\ now = MainStartDay
    /\ fmt = NoFmt
    /\ InitRun

\* an exception leaves the outer try block: line 152 prints it
Abort(exc, at) ==
    /\ pc' = "aborted"
    /\ raised' = [exc |-> exc, at |-> at]
    /\ printed' = Append(printed, "error")

\* line 65
GetChannelInfo ==
    /\ pc = "meta"
    /\ \E resp \in MetaResponses :
          LET r == get_channel_info(resp)
          IN  /\ channel_info' = r.dict
              /\ meta' = IF r.failed THEN "failed" ELSE "ok"
              /\ printed' = IF r.failed THEN Append(printed, "meta_failed")
                            ELSE printed
    /\ pc' = "urls"
    /\ UNCHANGED <<now, ticks, urls, api, data, ci, programs, pi, tv,
                   processed_channels, requested, fetched, file, opens, raised,
                   fmt>>

\* midnight passes while get_api_urls runs (the rest of the script does not
\* read the clock, nor what the URLs say)
Tick ==
    /\ pc = "urls"
    /\ ticks < MaxTicks
    /\ now' = now + 1
    /\ ticks' = ticks + 1
    /\ UNCHANGED <<pc, channel_info, urls, api, data, ci, programs, pi, tv,
                   processed_channels, requested, fetched, meta, file, opens,
                   printed, raised, fmt>>

\* one iteration of get_api_urls (lines 34-37): datetime.now() is read anew
GenUrl ==
    /\ pc = "urls"
    /\ Len(urls) < NumDays
    /\ LET i == Len(urls)
           date == now + i
           formatted_date == StrftimeDMY(CivilFromDays(date))
       IN  urls' = Append(urls, URL(formatted_date))
    /\ pc' = IF Len(urls) + 1 = NumDays THEN "fetch" ELSE "urls"
    /\ UNCHANGED <<channel_info, now, ticks, api, data, ci, programs, pi, tv,
                   processed_channels, requested, fetched, meta, file, opens,
                   printed, raised, fmt>>

\* lines 76-80 and 137-139: the GET of the next day URL.  A request error
\* and a non-2xx status both raise a RequestException, caught at line 137.
FetchDay ==
    /\ pc = "fetch"
    /\ api < Len(urls)
    /\ api' = api + 1
    /\ requested' = Append(requested, urls[api + 1])
    /\ \/ \E kind \in RequestFailures :
            /\ fetched' = Append(fetched, [status |-> "failed", data |-> <<>>])
            /\ printed' = Append(printed, "day_failed")
            /\ pc' = "fetch"
            /\ UNCHANGED <<data, ci>>
       \/ \E d \in Bundles(MaxRecords - UsedRecords(fetched)) :
            /\ fetched' = Append(fetched, [status |-> "ok", data |-> d])
            /\ data' = d
            /\ ci' = 0
            /\ pc' = IF d = <<>> THEN "fetch" ELSE "channel"
            /\ UNCHANGED printed
    /\ UNCHANGED <<channel_info, now, ticks, urls, programs, pi, tv,
                   processed_channels, meta, file, opens, raised, fmt>>

\* lines 82-103: the next channel entry and its channel node
AddChannel ==
    /\ pc = "channel"
    /\ ci' = ci + 1
    /\ LET channel == data[ci + 1]
           channel_id == IF channel.i = NoKey THEN "unknown_id" ELSE channel.i
           channel_name == IF channel.n = NoKey THEN "unknown_name" ELSE channel.n
       IN  IF channel_id \notin processed_channels
           THEN /\ tv' = tv \o NewChannelNodes(channel_id, channel_name,
                                                channel_info, <<api, ci + 1>>)
                /\ processed_channels' =
                        MarkProcessed(processed_channels, channel_id)
           ELSE UNCHANGED <<tv, processed_channels>>
    /\ pc' = "sort"
    /\ UNCHANGED <<channel_info, now, ticks, urls, api, data, programs, pi,
                   requested, fetched, meta, file, opens, printed, raised, fmt>>

\* lines 106-107: the entry's list is sorted in place; a key that raises is
\* no RequestException, so it leaves both try blocks
SortPrograms ==
    /\ pc = "sort"
    /\ LET l == data[ci].epg
           exc == SortRaises(l)
       IN  IF exc # "none"
           THEN /\ Abort(exc, "sort")
                /\ UNCHANGED <<data, programs, pi>>
           ELSE /\ programs' = SortedByKey(l)
                /\ data' = [data EXCEPT ![ci].epg = SortedByKey(l)]
                /\ pi' = 0
                /\ pc' = IF l = <<>> THEN AfterEntry ELSE "emit"
                /\ UNCHANGED <<raised, printed>>
    /\ UNCHANGED <<channel_info, now, ticks, urls, api, ci, tv,
                   processed_channels, requested, fetched, meta, file, opens,
                   fmt>>

\* lines 110-135: one programme record
EmitProgram ==
    /\ pc = "emit"
    /\ LET program == programs[pi + 1]
           program_start == Get(program.s, I(0))
           program_end == Get(program.e, I(0))
           channel == data[ci]
           channel_id == IF channel.i = NoKey THEN "unknown_id" ELSE channel.i
           ok == validate_program_times(program_start, program_end)
           start_time == format_timestamp(program_start)
           end_time == format_timestamp(program_end)
           goOn == /\ pi' = pi + 1
                   /\ pc' = IF pi + 1 < Len(programs) THEN "emit" ELSE AfterEntry
                   /\ UNCHANGED <<raised, printed>>
       IN  IF ok.exc # "none"
           THEN Abort(ok.exc, "validate") /\ UNCHANGED <<pi, tv>>
           ELSE IF ~ok.val
           THEN goOn /\ UNCHANGED tv
           ELSE IF start_time.exc # "none" \/ end_time.exc # "none"
           THEN Abort("TypeError", "format") /\ UNCHANGED <<pi, tv>>
           ELSE IF start_time.val # "" /\ end_time.val # ""
           THEN /\ goOn
                /\ tv' = Append(tv, ProgrammeNode(channel_id, start_time.val,
                                                  end_time.val, program.s,
                                                  program.e, <<api, ci>>))
           ELSE goOn /\ UNCHANGED tv
    /\ UNCHANGED <<channel_info, now, ticks, urls, api, data, ci, programs,
                   processed_channels, requested, fetched, meta, file, opens,
                   fmt>>

\* lines 142-147: the tree is serialized and epg.xml is opened for writing,
\* which truncates it; open() may fail
OpenFile ==
    /\ pc = "fetch"
    /\ AllDaysDone
    /\ opens' = opens + 1
    /\ \/ /\ file' = [state |-> "truncated", content |-> <<>>]
          /\ pc' = "write"
          /\ UNCHANGED <<raised, printed>>
       \/ /\ Abort("OSError", "open")
          /\ UNCHANGED file
    /\ UNCHANGED <<channel_info, now, ticks, urls, api, data, ci, programs, pi,
                   tv, processed_channels, requested, fetched, meta, fmt>>

\* lines 148-150: the document is written and the success message printed;
\* write() may fail
WriteFile ==
    /\ pc = "write"
    /\ \/ /\ file' = [state |-> "written", content |-> tv]
          /\ printed' = Append(printed, "success")
          /\ pc' = "done"
          /\ UNCHANGED raised
       \/ /\ Abort("OSError", "write")
          /\ UNCHANGED file
    /\ UNCHANGED <<channel_info, now, ticks, urls, api, data, ci, programs, pi,
                   tv, processed_channels, requested, fetched, meta, opens, fmt>>

Next ==
    \/ GetChannelInfo
    \/ GenUrl
    \/ FetchDay
    \/ AddChannel
    \/ SortPrograms
    \/ EmitProgram
    \/ OpenFile
    \/ WriteFile

Spec == Init /\ [][Next]_vars

-----------------------------------------------------------------------------
(* get_api_urls alone, over many dates of the call.                        *)

\* the first date of the call (2023-12-20) and the number of dates tried;
\* they cover a change of year and a 29 February
FirstStartDay == 19711
NumStartDays == 80

InitUrls ==
    /\ pc = "urls"
    /\ now \in FirstStartDay..(FirstStartDay + NumStartDays - 1)
    /\ fmt = NoFmt
    /\ InitRun

NextUrls == Tick \/ GenUrl

SpecUrls == InitUrls /\ [][NextUrls]_vars

-----------------------------------------------------------------------------
(* The body of the programme loop (lines 111-123) on one record.           *)

FmtTimes ==
    { I(0 - 5), I(0), I(1), I(1000), I(1245430799), I(1245430800),
      I(1250000000), I(1262278799), I(1262278800), I(1700000000),
      I(1709164800),
      S(<<"1", "7", "0", "0", "0", "0", "0", "0", "0", "0">>),
      S(<<"a", "b", "c">>), None }

InitFmt ==
    /\ pc = "fmt"
    /\ now = MainStartDay
    /\ fmt \in { [s |-> a, e |-> b, valid |-> "none", start_time |-> "",
                  end_time |-> ""] : a \in FmtTimes, b \in FmtTimes }
    /\ InitRun

FmtProgram ==
    /\ pc = "fmt"
    /\ LET ok == validate_program_times(fmt.s, fmt.e)
       IN  fmt' = IF ok.exc # "none" THEN [fmt EXCEPT !.valid = "raised"]
                  ELSE IF ~ok.val THEN [fmt EXCEPT !.valid = "false"]
                  ELSE [fmt EXCEPT !.valid = "true",
                                   !.start_time = format_timestamp(fmt.s).val,
                                   !.end_time = format_timestamp(fmt.e).val]
    /\ pc' = "fmt_done"
    /\ UNCHANGED <<channel_info, now, ticks, urls, api, data, ci, programs, pi,
                   tv, processed_channels, requested, fetched, meta, file,
                   opens, printed, raised>>

NextFmt == FmtProgram

SpecFmt == InitFmt /\ [][NextFmt]_vars

-----------------------------------------------------------------------------
(* Vocabulary of the properties.                                           *)

RunOver == pc \in {"done", "aborted"}

\* the exception came from open() or write(), not from fetching or assembly
IoFailed == raised.at \in {"open", "write"}

EntryId(entry) == IF entry.i = NoKey THEN "unknown_id" ELSE entry.i
EntryName(entry) == IF entry.n = NoKey THEN "unknown_name" ELSE entry.n

\* the days whose GET gave a bundle, among those attempted so far
OkDays == { k \in 1..Len(fetched) : fetched[k].status = "ok" }
FailedDays == { k \in 1..Len(fetched) : fetched[k].status = "failed" }

\* <<k, j>>: entry j of the bundle of day k
FetchedEntries ==
    UNION { { <<k, j>> : j \in 1..Len(fetched[k].data) } : k \in OkDays }

\* the entries the loop of line 82 has reached
StartedEntries ==
    { x \in FetchedEntries : x[1] < api \/ (x[1] = api /\ x[2] <= ci) }

IsTimestamp(x) == PyInt(Get(x, I(0))).exc = "none"
TimeOf(x) == PyInt(Get(x, I(0))).val

\* 0 < start < end
StartBeforeEnd(p) ==
    /\ IsTimestamp(p.s) /\ IsTimestamp(p.e)
    /\ 0 < TimeOf(p.s) /\ TimeOf(p.s) < TimeOf(p.e)

Malformed(p) == ~IsTimestamp(p.s) \/ ~IsTimestamp(p.e)

ChannelNodes(doc) == { k \in 1..Len(doc) : doc[k].tag = "channel" }
ProgrammeNodes(doc) == { k \in 1..Len(doc) : doc[k].tag = "programme" }

\* the document has a programme node made from record p of entry x
Emitted(doc, x, p) ==
    \E k \in ProgrammeNodes(doc) :
        doc[k].src = x /\ doc[k].rs = p.s /\ doc[k].re = p.e

\* the programme records of entry x, as fetched
RecordsOf(x) ==
    { fetched[x[1]].data[x[2]].epg[n] :
        n \in 1..Len(fetched[x[1]].data[x[2]].epg) }

\* every fetched record with 0 < start < end has its programme node
AllValidEmitted(doc) ==
    \A x \in FetchedEntries : \A p \in RecordsOf(x) :
        StartBeforeEnd(p) => Emitted(doc, x, p)

\* the channel nodes of the document with id c
ChannelCount(doc, c) ==
    Cardinality({ k \in ChannelNodes(doc) : doc[k].channel = c })

\* the channel ids of a set of entries
IdsOf(entries) == { EntryId(fetched[x[1]].data[x[2]]) : x \in entries }

\* the date and time of the UTC instant x plus 6 hours, with the suffix
UtcPlus6(x) == StrftimeCompact(WallTime(TimeOf(x) + 6 * 3600)) \o " +0600"

\* the run ended with the document written to epg.xml
Produced == pc = "done" /\ file.state = "written" /\ file.content = tv

-----------------------------------------------------------------------------
\* C1: once the run is over, a programme record of a fetched bundle has a
\* programme node in the document if and only if 0 < start < end.
C1_EmittedIffValid ==
    RunOver =>
        \A x \in FetchedEntries : \A p \in RecordsOf(x) :
            Emitted(tv, x, p) <=> StartBeforeEnd(p)

\* C2: every channel id of an entry the loop has reached has exactly one
\* channel node, every other id has none, and the file written at the end
\* has exactly one channel node for every id of every fetched entry.
C2_OneChannelNodePerId ==
    /\ \A c \in IdsOf(StartedEntries) : ChannelCount(tv, c) = 1
    /\ \A k \in ChannelNodes(tv) : tv[k].channel \in IdsOf(StartedEntries)
    /\ pc = "done" =>
          \A c \in IdsOf(FetchedEntries) : ChannelCount(file.content, c) = 1

\* the written file has one channel node for an id that two entries carry
C2_Witness ==
    /\ pc = "done"
    /\ \E x \in FetchedEntries : \E y \in FetchedEntries :
          /\ x[1] # y[1]
          /\ EntryId(fetched[x[1]].data[x[2]]) = EntryId(fetched[y[1]].data[y[2]])
          /\ ChannelCount(file.content, EntryId(fetched[x[1]].data[x[2]])) = 1

\* C3: any two programme nodes of one channel are in start-time order.
C3_SortedPerChannel ==
    \A k \in ProgrammeNodes(tv) : \A l \in ProgrammeNodes(tv) :
        (k < l /\ tv[k].channel = tv[l].channel)
            => TimeOf(tv[k].rs) <= TimeOf(tv[l].rs)

\* C3, amended: any two programme nodes made from the records of one channel
\* entry of one day bundle are in start-time order.
C3_SortedPerEntry ==
    \A k \in ProgrammeNodes(tv) : \A l \in ProgrammeNodes(tv) :
        (k < l /\ tv[k].src = tv[l].src)
            => TimeOf(tv[k].rs) <= TimeOf(tv[l].rs)

\* an entry whose records came out of order has given two programme nodes
C3_Witness ==
    \E x \in FetchedEntries :
        LET epg == fetched[x[1]].data[x[2]].epg
        IN  /\ Len(epg) = 2
            /\ StartBeforeEnd(epg[1]) /\ StartBeforeEnd(epg[2])
            /\ TimeOf(epg[1].s) > TimeOf(epg[2].s)
            /\ Emitted(tv, x, epg[1]) /\ Emitted(tv, x, epg[2])

\* C4: when a fetched record has a malformed start or end, the run still
\* ends with the file written (unless writing itself fails), the malformed
\* record is not in it and every well-formed record with 0 < start < end is.
C4_MalformedDropped ==
    (RunOver /\ ~IoFailed
        /\ \E x \in FetchedEntries : \E p \in RecordsOf(x) : Malformed(p))
    => /\ Produced
       /\ AllValidEmitted(file.content)
       /\ \A x \in FetchedEntries : \A p \in RecordsOf(x) :
             Malformed(p) => ~Emitted(file.content, x, p)

\* C5: when the metadata fetch fails, the index is empty, the run still ends
\* with the file written (unless writing itself fails), every channel node
\* has the name of its entry and neither category nor icon, and every record
\* with 0 < start < end of the fetched days is in the file.
C5_MetadataFailure ==
    (meta = "failed")
    => /\ DOMAIN channel_info = {}
       /\ \A k \in ChannelNodes(tv) :
             /\ tv[k].category = NoElem /\ tv[k].icon = NoElem
             /\ tv[k].name = EntryName(fetched[tv[k].src[1]].data[tv[k].src[2]])
       /\ (RunOver /\ ~IoFailed) => (Produced /\ AllValidEmitted(file.content))

\* C6: when the GET of a day URL fails, the day gives no node, no URL is
\* requested twice, and the run still goes through the three URLs in order
\* and ends with the file written (unless writing itself fails), holding
\* every record with 0 < start < end of the other days.
C6_DayFailure ==
    (FailedDays # {})
    => /\ \A k \in 1..Len(tv) : tv[k].src[1] \notin FailedDays
       /\ \A a \in 1..Len(requested) : \A b \in 1..Len(requested) :
             requested[a] = requested[b] => a = b
       /\ \A a \in 1..Len(requested) : requested[a] = urls[a]
       /\ (RunOver /\ ~IoFailed)
             => /\ Len(requested) = NumDays
                /\ Produced
                /\ AllValidEmitted(file.content)

\* C7: the three URLs returned encode three consecutive dates D, D+1, D+2,
\* D being the date get_api_urls was called on or first read the clock on.
C7_ConsecutiveDates ==
    Len(urls) = NumDays =>
        \E D \in (now - ticks)..now :
            urls = << URL(StrftimeDMY(CivilFromDays(D))),
                      URL(StrftimeDMY(CivilFromDays(D + 1))),
                      URL(StrftimeDMY(CivilFromDays(D + 2))) >>

\* C8: a timestamp that passed validation is formatted as the date and time
\* of the UTC instant plus 6 hours, followed by " +0600".
C8_UtcPlusSixHours ==
    (pc = "fmt_done" /\ fmt.valid = "true")
    => (fmt.start_time = UtcPlus6(fmt.s) /\ fmt.end_time = UtcPlus6(fmt.e))

\* C9: every programme node comes after a channel node with the id that its
\* channel attribute names.
C9_ChannelNodeBeforeProgramme ==
    \A k \in ProgrammeNodes(tv) :
        \E j \in ChannelNodes(tv) : j < k /\ tv[j].channel = tv[k].channel

\* a programme node of a later day refers to the channel node of an earlier one
C9_Witness ==
    \E k \in ProgrammeNodes(tv) : \E j \in ChannelNodes(tv) :
        tv[j].channel = tv[k].channel /\ tv[j].src[1] < tv[k].src[1]

\* C10: epg.xml is opened at most once, and only after the metadata fetch and
\* a GET of each of the three day URLs and the assembly of what they gave;
\* when an exception leaves fetching or assembly the error is the last thing
\* printed, no success message is, and epg.xml is as it was.
C10_FileUntouchedOnAbort ==
    /\ opens <= 1
    /\ (opens > 0 \/ file # OldFile)
          => /\ meta # "pending"
             /\ Len(requested) = NumDays /\ Len(fetched) = NumDays
             /\ StartedEntries = FetchedEntries
             /\ pc \in {"write", "done", "aborted"}
    /\ (pc = "aborted" /\ ~IoFailed)
          => /\ file = OldFile /\ opens = 0
             /\ \A k \in 1..Len(printed) : printed[k] # "success"
             /\ printed[Len(printed)] = "error"

\* the run ended in assembly with nodes of an earlier day in the tree
C10_Witness ==
    /\ pc = "aborted" /\ raised.at = "sort"
    /\ \E k \in ProgrammeNodes(tv) : tv[k].src[1] < api

====
